---- MODULE Spec2Model ----
(***************************************************************************)
(* Model of src/index.js: an Express service holding the array `pokemons`  *)
(* in memory, rewriting data/pokemons.json on every mutation.              *)
(*                                                                         *)
(* Each route handler runs to completion (Node runs one callback at a time *)
(* and the file write is writeFileSync), so one action models one whole    *)
(* handler.                                                                *)
(***************************************************************************)
EXTENDS Integers, Sequences, FiniteSets, TLC

VARIABLES pokemons, file, req, res, pre

vars == <<pokemons, file, req, res, pre>>

---------------------------------------------------------------------------
(* Bounds of the model *)

\* largest store the CRUD specifications grow to
MaxStore == 2
\* largest numeric id the CRUD specifications generate or patch in
MaxId == 3
\* largest store of the pagination specification (three pages: 20, 20, 1)
MaxListLen == 41

---------------------------------------------------------------------------
(* JavaScript values.  A scalar is [k, n]: k is the type tag, n the number *)
(* (or the identity of an opaque object); a property that is absent reads  *)
(* as undefined.                                                           *)

Undefined == [k |-> "undefined", n |-> 0]
Null == [k |-> "null", n |-> 0]
NaN == [k |-> "NaN", n |-> 0]
Num(n) == [k |-> "number", n |-> n]
\* the non-numeric string "x"
StrX == [k |-> "string", n |-> 0]
\* an opaque array or object (a `type` list, a `base` mapping)
Obj(n) == [k |-> "object", n |-> n]

Langs == <<"english", "french", "japanese", "chinese">>

EmptyMap == [l \in {} |-> <<>>]
\* a `name` value: an object mapping some language keys to strings, or a
\* non-object
NameObj(m) == [k |-> "object", v |-> m]
NameNull == [k |-> "null", v |-> EmptyMap]
NameUndefined == [k |-> "undefined", v |-> EmptyMap]

\* JavaScript truthiness (the `!x` of the validation)
Truthy(x) ==
  \/ x.k = "object"
  \/ x.k = "string"
  \/ (x.k = "number" /\ x.n # 0)

\* ToNumber, as Math.max applies it to each argument
ToNumber(x) ==
  CASE x.k = "number" -> x
    [] x.k = "null" -> Num(0)
    [] OTHER -> NaN

\* a === b for primitives: NaN equals nothing
StrictEquals(a, b) == a.k # "NaN" /\ a = b

---------------------------------------------------------------------------
(* Strings are sequences of one-character strings. *)

DigitVal(c) ==
  CASE c = "0" -> 0 [] c = "1" -> 1 [] c = "2" -> 2 [] c = "3" -> 3
    [] c = "4" -> 4 [] c = "5" -> 5 [] c = "6" -> 6 [] c = "7" -> 7
    [] c = "8" -> 8 [] c = "9" -> 9

IsDigit(c) == c \in {"0", "1", "2", "3", "4", "5", "6", "7", "8", "9"}

\* the value of the longest run of digits of s from position i on, given the
\* value acc of the digits read so far
RECURSIVE ScanDigits(_, _, _)
ScanDigits(s, i, acc) ==
  IF i <= Len(s) /\ IsDigit(s[i])
  THEN ScanDigits(s, i + 1, acc * 10 + DigitVal(s[i]))
  ELSE acc

\* parseInt(s) without radix on a string: optional sign, then the longest
\* prefix of decimal digits; NaN when there is none
ParseInt(s) ==
  LET signed == Len(s) > 0 /\ s[1] \in {"-", "+"}
      first == IF signed THEN 2 ELSE 1
      sign == IF signed /\ s[1] = "-" THEN -1 ELSE 1
  IN IF first <= Len(s) /\ IsDigit(s[first])
     THEN Num(sign * ScanDigits(s, first, 0))
     ELSE NaN

\* a query parameter: absent, or a string
NoQuery == [k |-> "undefined", s |-> <<>>]
Query(s) == [k |-> "string", s |-> s]

\* parseInt of a query parameter: String(undefined) holds no digit
ParseIntQuery(q) == IF q.k = "string" THEN ParseInt(q.s) ELSE NaN

\* String.prototype.toLowerCase over the model's alphabet
LowerChar(c) ==
  CASE c = "A" -> "a" [] c = "B" -> "b" [] OTHER -> c

ToLowerCase(s) == [i \in 1..Len(s) |-> LowerChar(s[i])]

\* String.prototype.includes
Includes(s, q) ==
  \E i \in 0..(Len(s) - Len(q)) : SubSeq(s, i + 1, i + Len(q)) = q

---------------------------------------------------------------------------
(* Arrays *)

\* Array.prototype.slice(start, end): negative indexes count from the end
Slice(arr, start, end) ==
  LET len == Len(arr)
      k == IF start < 0 THEN (IF len + start > 0 THEN len + start ELSE 0)
           ELSE (IF start < len THEN start ELSE len)
      final == IF end < 0 THEN (IF len + end > 0 THEN len + end ELSE 0)
               ELSE (IF end < len THEN end ELSE len)
  IN IF k < final THEN SubSeq(arr, k + 1, final) ELSE <<>>

\* a division that rounds down instead of up
MathFloorDiv(a, b) == a \div b

\* Math.ceil(a / b) for a >= 0, b > 0
MathCeilDiv(a, b) == IF a % b = 0 THEN a \div b ELSE (a \div b) + 1

\* Math.max(...xs) of a non-empty list: NaN as soon as one argument is not a
\* number after ToNumber
RECURSIVE MathMaxFrom(_, _, _)
MathMaxFrom(xs, i, acc) ==
  IF i > Len(xs) THEN acc
  ELSE LET x == ToNumber(xs[i])
       IN IF acc.k = "NaN" \/ x.k = "NaN" THEN NaN
          ELSE MathMaxFrom(xs, i + 1, IF x.n > acc.n THEN x ELSE acc)

MathMax(xs) == MathMaxFrom(xs, 2, ToNumber(xs[1]))

\* x + 1
PlusOne(x) == IF x.k = "number" THEN Num(x.n + 1) ELSE NaN

\* index of the first element whose id === target, 0 when there is none
\* (Array.prototype.find / findIndex)
FindIndex(arr, target) ==
  IF \E i \in 1..Len(arr) : StrictEquals(arr[i].id, target)
  THEN CHOOSE i \in 1..Len(arr) :
         /\ StrictEquals(arr[i].id, target)
         /\ \A j \in 1..(i - 1) : ~StrictEquals(arr[j].id, target)
  ELSE 0

\* arr.splice(index, 1) leaves arr without its element at index
Splice(arr, index) ==
  [i \in 1..(Len(arr) - 1) |-> IF i < index THEN arr[i] ELSE arr[i + 1]]

---------------------------------------------------------------------------
(* JSON *)

\* what JSON.stringify writes for a scalar: NaN is written null
JSONScalar(x) == IF x.k = "NaN" THEN Null ELSE x

\* JSON.stringify of one record, as the value its text denotes
JSONRecord(p) == [p EXCEPT !.id = JSONScalar(p.id)]

\* JSON.stringify(pokemons, null, 2), as the value its text denotes
JSONStringify(arr) == [i \in 1..Len(arr) |-> JSONRecord(arr[i])]

\* JSON.parse of a file's content
JSONParse(text) == text

---------------------------------------------------------------------------
(* Requests and responses *)

NoPokemon == [id |-> Undefined, name |-> NameUndefined, type |-> Undefined,
              base |-> Undefined]

NoPagination == [currentPage |-> 0, totalPages |-> 0, totalPokemons |-> 0,
                 itemsPerPage |-> 0, hasNextPage |-> FALSE,
                 hasPreviousPage |-> FALSE]

\* a response: the status, the keys of its JSON body, and their values
Response(status, keys, pokemon, list, pagination) ==
  [status |-> status, keys |-> keys, pokemon |-> pokemon, list |-> list,
   pagination |-> pagination]

MessageOnly(status) ==
  Response(status, {"message"}, NoPokemon, <<>>, NoPagination)

NoResponse == Response(0, {}, NoPokemon, <<>>, NoPagination)

\* Express's default error handler answers an exception thrown by a handler
InternalError == Response(500, {}, NoPokemon, <<>>, NoPagination)

Request(op, id, page, name, body) ==
  [op |-> op, id |-> id, page |-> page, name |-> name, body |-> body]

NoRequest == Request("none", <<>>, NoQuery, <<>>, NoPokemon)

---------------------------------------------------------------------------
(* GET /api/pokemons?page=N *)

limit == 20

\* parseInt(req.query.page) || 1
PageOf(q) ==
  LET parsed == ParseIntQuery(q)
  IN IF Truthy(parsed) THEN parsed.n ELSE 1

ListResponse(arr, q) ==
  LET page == PageOf(q)
      startIndex == (page - 1) * limit
      endIndex == startIndex + limit
      totalPokemons == Len(arr)
      totalPages == MathCeilDiv(totalPokemons, limit)
      paginatedPokemons == Slice(arr, startIndex, endIndex)
  IN IF page > totalPages /\ totalPages > 0
     THEN MessageOnly(400)
     ELSE Response(200, {"data", "pagination"}, NoPokemon,
                   [i \in 1..Len(paginatedPokemons) |->
                      JSONRecord(paginatedPokemons[i])],
                   [currentPage |-> page, totalPages |-> totalPages,
                    totalPokemons |-> totalPokemons, itemsPerPage |-> limit,
                    hasNextPage |-> page < totalPages,
                    hasPreviousPage |-> page > 1])

GetPokemons(q) ==
  /\ req' = Request("list", <<>>, q, <<>>, NoPokemon)
  /\ pre' = [pokemons |-> pokemons, file |-> file]
  /\ res' = ListResponse(pokemons, q)
  /\ UNCHANGED <<pokemons, file>>

---------------------------------------------------------------------------
(* GET /api/pokemons/search/:name *)

\* evaluating p.name.<lang>.toLowerCase() throws a TypeError
LangThrows(p, l) == p.name.k # "object" \/ l \notin DOMAIN p.name.v

LangIncludes(p, l, searchName) == Includes(ToLowerCase(p.name.v[l]), searchName)

\* the filter callback on p throws: some language is reached (no earlier one
\* matched) and cannot be lower-cased
CallbackThrows(p, searchName) ==
  \E j \in 1..Len(Langs) :
    /\ LangThrows(p, Langs[j])
    /\ \A i \in 1..(j - 1) :
         /\ ~LangThrows(p, Langs[i])
         /\ ~LangIncludes(p, Langs[i], searchName)

\* the filter callback on p returns true
CallbackTrue(p, searchName) ==
  \E j \in 1..Len(Langs) :
    /\ ~LangThrows(p, Langs[j])
    /\ LangIncludes(p, Langs[j], searchName)
    /\ \A i \in 1..(j - 1) : ~LangThrows(p, Langs[i])

RECURSIVE Filter(_, _)
Filter(arr, searchName) ==
  IF arr = <<>> THEN <<>>
  ELSE (IF CallbackTrue(Head(arr), searchName) THEN <<Head(arr)>> ELSE <<>>)
       \o Filter(Tail(arr), searchName)

SearchResponse(arr, name) ==
  LET searchName == ToLowerCase(name)
  IN IF \E i \in 1..Len(arr) : CallbackThrows(arr[i], searchName)
     THEN InternalError
     ELSE LET results == Filter(arr, searchName)
          IN IF Len(results) = 0
             THEN Response(404, {"message", "results"}, NoPokemon, <<>>,
                           NoPagination)
             ELSE Response(200, {"message", "results"}, NoPokemon,
                           [i \in 1..Len(results) |-> JSONRecord(results[i])],
                           NoPagination)

SearchPokemons(name) ==
  /\ req' = Request("search", <<>>, NoQuery, name, NoPokemon)
  /\ pre' = [pokemons |-> pokemons, file |-> file]
  /\ res' = SearchResponse(pokemons, name)
  /\ UNCHANGED <<pokemons, file>>

---------------------------------------------------------------------------
(* GET /api/pokemons/:id *)

GetByIdResponse(arr, id) ==
  LET index == FindIndex(arr, ParseInt(id))
  IN IF index = 0
     THEN MessageOnly(404)
     ELSE Response(200, {"pokemon"}, JSONRecord(arr[index]), <<>>,
                   NoPagination)

GetPokemonById(id) ==
  /\ req' = Request("get", id, NoQuery, <<>>, NoPokemon)
  /\ pre' = [pokemons |-> pokemons, file |-> file]
  /\ res' = GetByIdResponse(pokemons, id)
  /\ UNCHANGED <<pokemons, file>>

---------------------------------------------------------------------------
(* POST /api/pokemons *)

\* a validation that forgets `type`
IsInvalidNoType(body) == ~Truthy(body.name) \/ ~Truthy(body.base)

\* !newPokemon.name || !newPokemon.type || !newPokemon.base
IsInvalid(body) ==
  ~Truthy(body.name) \/ ~Truthy(body.type) \/ ~Truthy(body.base)

\* pokemons.length > 0 ? Math.max(...pokemons.map(p => p.id)) + 1 : 1
NewId(arr) ==
  IF Len(arr) > 0
  THEN PlusOne(MathMax([i \in 1..Len(arr) |-> arr[i].id]))
  ELSE Num(1)

\* newPokemon.id = newId
WithId(body, newId) == [body EXCEPT !.id = newId]

PostPokemons(body) ==
  /\ req' = Request("create", <<>>, NoQuery, <<>>, body)
  /\ pre' = [pokemons |-> pokemons, file |-> file]
  /\ IF IsInvalid(body)
     THEN /\ res' = MessageOnly(400)
          /\ UNCHANGED <<pokemons, file>>
     ELSE LET newPokemon == WithId(body, NewId(pokemons))
          IN /\ pokemons' = Append(pokemons, newPokemon)
             /\ file' = JSONStringify(pokemons')
             /\ res' = Response(201, {"pokemon"}, JSONRecord(newPokemon),
                                <<>>, NoPagination)

---------------------------------------------------------------------------
(* PUT /api/pokemons/:id *)

\* one property after Object.assign(target, source): a key of the source
\* takes the source's value, any other key keeps the target's
Assigned(old, new) == IF new.k = "undefined" THEN old ELSE new

\* an update that replaces the record by the patch instead of merging
ObjectReplace(pokemon, body) == body

ObjectAssign(pokemon, body) ==
  [id |-> Assigned(pokemon.id, body.id),
   name |-> Assigned(pokemon.name, body.name),
   type |-> Assigned(pokemon.type, body.type),
   base |-> Assigned(pokemon.base, body.base)]

PutPokemon(id, body) ==
  /\ req' = Request("update", id, NoQuery, <<>>, body)
  /\ pre' = [pokemons |-> pokemons, file |-> file]
  /\ LET index == FindIndex(pokemons, ParseInt(id))
     IN IF index = 0
        THEN /\ res' = MessageOnly(404)
             /\ UNCHANGED <<pokemons, file>>
        ELSE /\ pokemons' = [pokemons EXCEPT
                               ![index] = ObjectAssign(pokemons[index], body)]
             /\ file' = JSONStringify(pokemons')
             /\ res' = Response(200, {"pokemon"}, JSONRecord(pokemons'[index]),
                                <<>>, NoPagination)

---------------------------------------------------------------------------
(* DELETE /api/pokemons/:id *)

DeletePokemon(id) ==
  /\ req' = Request("delete", id, NoQuery, <<>>, NoPokemon)
  /\ pre' = [pokemons |-> pokemons, file |-> file]
  /\ LET index == FindIndex(pokemons, ParseInt(id))
     IN IF index = 0
        THEN /\ res' = MessageOnly(404)
             /\ UNCHANGED <<pokemons, file>>
        ELSE /\ pokemons' = Splice(pokemons, index)
             /\ file' = JSONStringify(pokemons')
             /\ res' = Response(200, {"message", "pokemon"},
                                JSONRecord(pokemons[index]), <<>>,
                                NoPagination)

---------------------------------------------------------------------------
(* Inputs of the specifications *)

DigitChar(d) ==
  CASE d = 0 -> "0" [] d = 1 -> "1" [] d = 2 -> "2" [] d = 3 -> "3"
    [] d = 4 -> "4" [] d = 5 -> "5" [] d = 6 -> "6" [] d = 7 -> "7"
    [] d = 8 -> "8" [] d = 9 -> "9"

\* the decimal digits of n >= 0, as a client writes a number into a URL
RECURSIVE DecimalString(_)
DecimalString(n) ==
  IF n < 10 THEN <<DigitChar(n)>>
  ELSE Append(DecimalString(n \div 10), DigitChar(n % 10))

\* String(x) of a value read from a JSON response, as a client writes it
\* into a URL
ToParam(x) ==
  CASE x.k = "number" /\ x.n >= 0 -> DecimalString(x.n)
    [] x.k = "number" /\ x.n < 0 -> <<"-">> \o DecimalString(-x.n)
    [] x.k = "null" -> <<"n", "u", "l", "l">>
    [] OTHER -> <<"x">>

FullName(s) == NameObj([l \in {"english", "french", "japanese", "chinese"} |-> s])

NameA == FullName(<<"A", "b">>)
NameB == FullName(<<"b", "a">>)

\* a record as the initial data file holds it
Stored(i) == [id |-> Num(i), name |-> NameA, type |-> Obj(1), base |-> Obj(1)]

\* the sequences of at most n distinct elements of S
RECURSIVE DistinctSeqs(_, _)
DistinctSeqs(S, n) ==
  IF n = 0 THEN {<<>>}
  ELSE LET shorter == DistinctSeqs(S, n - 1)
       IN shorter \cup
          {Append(q, x) : q \in {t \in shorter : Len(t) = n - 1}, x \in S}

IsInjective(q) == \A i, j \in 1..Len(q) : i # j => q[i] # q[j]

\* contents of data/pokemons.json at start: records with pairwise distinct
\* positive integer ids
InitialFiles ==
  {[i \in 1..Len(q) |-> Stored(q[i])] :
     q \in {t \in DistinctSeqs(1..MaxId, MaxStore) : IsInjective(t)}}

ValidBody == [id |-> Undefined, name |-> NameA, type |-> Obj(1), base |-> Obj(1)]

\* request bodies of POST: complete, with a caller-supplied id, with a key
\* missing, with a key present but falsy ("type": 0)
Bodies ==
  {ValidBody,
   [ValidBody EXCEPT !.id = Num(1)],
   [ValidBody EXCEPT !.name = NameUndefined],
   [ValidBody EXCEPT !.type = Undefined],
   [ValidBody EXCEPT !.base = Undefined],
   [ValidBody EXCEPT !.type = Num(0)]}

\* request bodies of PUT: a plain field, or an id (a number or a string)
Patches ==
  {[id |-> Undefined, name |-> NameUndefined, type |-> Obj(2), base |-> Undefined],
   [id |-> StrX, name |-> NameUndefined, type |-> Undefined, base |-> Undefined]}
  \cup {[id |-> Num(k), name |-> NameUndefined, type |-> Undefined,
         base |-> Undefined] : k \in 1..MaxId}

\* the :id of a URL
IdParams == {DecimalString(k) : k \in 1..MaxId} \cup {<<"x">>}

\* the model stops growing the store at maxLen records and at the id maxId
PostWithin(body, maxLen, maxId) ==
  /\ \/ IsInvalid(body)
     \/ /\ Len(pokemons) < maxLen
        /\ NewId(pokemons).k = "number" => NewId(pokemons).n <= maxId
  /\ PostPokemons(body)

---------------------------------------------------------------------------
(* The service under create, update, delete and fetch-by-id requests *)

\* let pokemons = JSON.parse(readFileSync(...))
Init ==
  /\ file \in InitialFiles
  /\ pokemons = JSONParse(file)
  /\ req = NoRequest
  /\ res = NoResponse
  /\ pre = [pokemons |-> pokemons, file |-> file]

Next ==
  \/ \E body \in Bodies : PostWithin(body, MaxStore, MaxId)
  \/ \E id \in IdParams, body \in Patches : PutPokemon(id, body)
  \/ \E id \in IdParams : DeletePokemon(id)
  \/ \E id \in IdParams : GetPokemonById(id)

Spec == Init /\ [][Next]_vars

---------------------------------------------------------------------------
(* The service under list requests, on stores of several pages *)

\* largest page number a list request names
MaxPage == 4

\* the ?page= of a URL: absent, not a number, digits followed by a letter,
\* zero, negative, and the pages 1..MaxPage
PageParams ==
  {NoQuery, Query(<<"x">>), Query(<<"2", "x">>), Query(<<"0">>),
   Query(<<"-", "1">>)}
  \cup {Query(DecimalString(p)) : p \in 1..MaxPage}

InitList ==
  /\ file \in {[i \in 1..n |-> Stored(i)] : n \in 0..MaxListLen}
  /\ pokemons = JSONParse(file)
  /\ req = NoRequest
  /\ res = NoResponse
  /\ pre = [pokemons |-> pokemons, file |-> file]

NextList ==
  \/ \E q \in PageParams : GetPokemons(q)
  \/ PostWithin(ValidBody, MaxListLen, MaxListLen)

SpecList == InitList /\ [][NextList]_vars

---------------------------------------------------------------------------
(* The service under create, update, delete and search requests, with      *)
(* names that hold all, some or none of the four languages                 *)

NameMixed ==
  NameObj([l \in {"english", "french", "japanese", "chinese"} |->
             IF l = "chinese" THEN <<"A", "b">> ELSE <<"b">>])
NameEnglishOnly == NameObj([l \in {"english"} |-> <<"a">>])
NameNoEnglish == NameObj([l \in {"french", "japanese", "chinese"} |-> <<"a">>])

SearchBodies ==
  {[ValidBody EXCEPT !.name = n] :
     n \in {NameA, NameMixed, NameEnglishOnly, NameNoEnglish}}

SearchPatches ==
  {[id |-> Undefined, name |-> n, type |-> Undefined, base |-> Undefined] :
     n \in {NameNull, NameMixed}}

\* the :name of a URL
SearchParams == {<<"a">>, <<"A", "B">>, <<"b">>, <<"c">>}

NextSearch ==
  \/ \E body \in SearchBodies : PostWithin(body, MaxStore, MaxId)
  \/ \E id \in IdParams, body \in SearchPatches : PutPokemon(id, body)
  \/ \E id \in IdParams : DeletePokemon(id)
  \/ \E name \in SearchParams : SearchPokemons(name)

SpecSearch == Init /\ [][NextSearch]_vars

---------------------------------------------------------------------------
(* Properties.  `pre` holds the store and the file as the last request     *)
(* found them, `req` the last request and `res` its response.              *)

Present(x) == x.k # "undefined"

HasId(arr, n) == \E i \in 1..Len(arr) : arr[i].id = Num(n)

\* position of the first record of arr whose id is the number n
FirstWithId(arr, n) ==
  CHOOSE i \in 1..Len(arr) :
    /\ arr[i].id = Num(n)
    /\ \A j \in 1..(i - 1) : arr[j].id # Num(n)

\* arr without its element at position k
Without(arr, k) == SubSeq(arr, 1, k - 1) \o SubSeq(arr, k + 1, Len(arr))

\* C1: all id values in the store are pairwise distinct, in every state
\* reachable by Create, Update and Delete requests.
IdsUnique ==
  \A i, j \in 1..Len(pokemons) : i # j => pokemons[i].id # pokemons[j].id

\* C2: the backing file, re-parsed, equals the in-memory store whenever a
\* request starts or has ended (so after every successful mutation).
FileMirrorsStore == JSONParse(file) = pokemons

\* v is one more than the largest id of arr, or 1 when arr is empty
IsNextId(v, arr) ==
  IF arr = <<>> THEN v = Num(1)
  ELSE /\ v.k = "number"
       /\ \A i \in 1..Len(arr) : arr[i].id.k = "number" /\ arr[i].id.n < v.n
       /\ \E i \in 1..Len(arr) : arr[i].id.n = v.n - 1

\* C3: a Create whose payload has name, type and base present answers 201,
\* gives the new record the id max(existing ids)+1 (1 on an empty store),
\* appends it as the last element leaving the others as they were, and
\* returns it; a caller-supplied id is overridden.
CreateAppendsNextId ==
  (/\ req.op = "create"
   /\ Present(req.body.name) /\ Present(req.body.type) /\ Present(req.body.base))
  => /\ res.status = 201
     /\ Len(pokemons) = Len(pre.pokemons) + 1
     /\ SubSeq(pokemons, 1, Len(pre.pokemons)) = pre.pokemons
     /\ IsNextId(pokemons[Len(pokemons)].id, pre.pokemons)
     /\ pokemons[Len(pokemons)] =
          [req.body EXCEPT !.id = pokemons[Len(pokemons)].id]
     /\ res.pokemon = pokemons[Len(pokemons)]

\* C4: a Create whose payload lacks name, type or base answers 400 and
\* leaves the in-memory store and the backing file as they were.
CreateMissingFieldRejected ==
  (/\ req.op = "create"
   /\ ~Present(req.body.name) \/ ~Present(req.body.type)
        \/ ~Present(req.body.base))
  => /\ res = MessageOnly(400)
     /\ pokemons = pre.pokemons
     /\ file = pre.file

\* a Create without `type` (the other two present) was refused on a store
\* that holds records
CreateWithoutTypeRefused ==
  /\ req.op = "create"
  /\ ~Present(req.body.type)
  /\ Present(req.body.name) /\ Present(req.body.base)
  /\ res.status = 400
  /\ Len(pokemons) > 0

\* C5: after a Delete(id) that succeeds, a GetByID for the same id issued
\* next answers 404; Delete removed only the first record with that id and
\* left the others in their order.
DeleteThenGetNotFound ==
  (req.op = "delete" /\ res.status = 200)
  => /\ GetByIdResponse(pokemons, req.id).status = 404
     /\ \E n \in 1..MaxId :
          /\ req.id = DecimalString(n)
          /\ HasId(pre.pokemons, n)
          /\ pokemons = Without(pre.pokemons, FirstWithId(pre.pokemons, n))

\* C6: after a successful Create returned a record with id k, a GetByID(k)
\* issued next answers 200 with exactly the record Create returned.
CreateThenGetRoundTrip ==
  (req.op = "create" /\ res.status = 201)
  => GetByIdResponse(pokemons, ToParam(res.pokemon.id))
       = Response(200, {"pokemon"}, res.pokemon, <<>>, NoPagination)

ClaimedPageSize == 20

\* ceil(n / 20): the least t with t * 20 >= n
ClaimedTotalPages(n) == CHOOSE t \in 0..n : t * ClaimedPageSize >= n
                          /\ (t > 0 => (t - 1) * ClaimedPageSize < n)

\* the page a request asks for: 1 when the parameter is absent, not a number
\* or 0, else the number it writes
ClaimedPage(q) ==
  IF q \in {NoQuery, Query(<<"x">>), Query(<<"0">>)} THEN 1
  ELSE CHOOSE p \in (0 - MaxPage)..(MaxPage + 1) : q = Query(ToParam(Num(p)))

StatesPage(q) ==
  \/ q \in {NoQuery, Query(<<"x">>), Query(<<"0">>)}
  \/ \E p \in (0 - MaxPage)..(MaxPage + 1) : q = Query(ToParam(Num(p)))

\* the pages 1..t of the store, one after the other
RECURSIVE PagesUpTo(_)
PagesUpTo(t) ==
  IF t = 0 THEN <<>>
  ELSE PagesUpTo(t - 1) \o ListResponse(pokemons, Query(DecimalString(t))).list

NameContains(p, query) ==
  /\ p.name.k = "object"
  /\ \E l \in DOMAIN p.name.v :
       Includes(ToLowerCase(p.name.v[l]), ToLowerCase(query))

\* C8: Search(query) returns, in store order, exactly the records whose name
\* has a language value containing the query (case-insensitive): 200 with
\* them when there is one, 404 with an empty results array when there is
\* none, never another outcome, and the store is unchanged.
SearchOutcome ==
  req.op = "search" =>
    LET Matches(p) == NameContains(p, req.name)
        expected == SelectSeq(pokemons, Matches)
    IN /\ res.status = (IF expected = <<>> THEN 404 ELSE 200)
       /\ "results" \in res.keys
       /\ res.list = expected
       /\ pokemons = pre.pokemons
       /\ file = pre.file

Fields == {"id", "name", "type", "base"}

\* C9: Update(id, patch) on an id present in the store changes only the first
\* record with that id: each key of the patch takes the patch's value, every
\* other field is retained, the record keeps its position and no other record
\* changes; on an id absent from the store it answers 404 and leaves the
\* store and the file unchanged.
UpdateFrame ==
  req.op = "update" =>
    \A n \in 1..MaxId :
      req.id = DecimalString(n) =>
        IF HasId(pre.pokemons, n)
        THEN LET k == FirstWithId(pre.pokemons, n)
             IN /\ res.status = 200
                /\ Len(pokemons) = Len(pre.pokemons)
                /\ \A i \in 1..Len(pokemons) :
                     i # k => pokemons[i] = pre.pokemons[i]
                /\ \A f \in Fields :
                     pokemons[k][f] = IF Present(req.body[f])
                                      THEN req.body[f]
                                      ELSE pre.pokemons[k][f]
        ELSE /\ res = MessageOnly(404)
             /\ pokemons = pre.pokemons
             /\ file = pre.file

\* an Update of `type` on an id two records share changed the store
UpdateOfSharedId ==
  /\ req.op = "update"
  /\ res.status = 200
  /\ Present(req.body.type)
  /\ pokemons # pre.pokemons
  /\ \E i, j \in 1..Len(pre.pokemons) :
       /\ i < j
       /\ pre.pokemons[i].id = pre.pokemons[j].id
       /\ pre.pokemons[i].id.k = "number"
       /\ req.id = ToParam(pre.pokemons[i].id)

\* C10: a record's id never changes for as long as the record stays in the
\* store, under any Create, Update or Delete.
IdImmutable ==
  CASE req.op = "delete" /\ res.status = 200 ->
         \E k \in 1..Len(pre.pokemons) :
           [i \in 1..Len(pokemons) |-> pokemons[i].id]
             = [i \in 1..(Len(pre.pokemons) - 1) |->
                  Without(pre.pokemons, k)[i].id]
    [] OTHER ->
         \A i \in 1..Len(pre.pokemons) : pokemons[i].id = pre.pokemons[i].id

====
